---- MODULE Spec2Model ----
(***************************************************************************)
(* Model of the batch-write engine of framework_cg:                        *)
(*   DataLoader.simple_insert / DataLoader.upsert_df  (framework_cg/loader)*)
(*   PostgresConnection.conectar_postgres            (framework_cg/conn)   *)
(* One write call is followed from its entry to its return or raise.  The  *)
(* blocking calls (connect, execute_values, commit) are the steps; the     *)
(* destination is a table with a unique index on its first column.         *)
(***************************************************************************)
EXTENDS Integers, Sequences, FiniteSets, TLC

\* ---------------------------------------------------------------- bounds
MaxRows == 3        \* rows of the dataset handed to a call
MaxChunk == 2       \* largest page_size / chunk_size argument
MaxSegs == 3        \* '.'-separated segments of a table reference
MaxInitRows == 1    \* rows already stored in the destination

Min(a, b) == IF a <= b THEN a ELSE b

\* ------------------------------------------------------- cells and rows
\* A cell of the DataFrame: its pandas/numpy representation and a payload.
Cell(k, x) == [kind |-> k, v |-> x]
NoneCell == Cell("None", 0)
NaNCell == Cell("NaN", 0)

\* pd.isna(val) for a scalar
IsNa(val) == val.kind \in {"None", "NaN", "NaT"}

\* numpy integers coming out as floats
_to_native_intAsFloat(val) ==
    IF IsNa(val) THEN Cell("None", 0)
    ELSE IF val.kind \in {"np_int", "np_float"} THEN Cell("float", val.v)
    ELSE IF val.kind = "np_bool" THEN Cell("bool", val.v)
    ELSE IF val.kind = "Timestamp" THEN Cell("datetime", val.v)
    ELSE IF val.kind = "Timedelta" THEN Cell("float", val.v)
    ELSE val

\* DataLoader._to_native
_to_native(val) ==
    IF val.kind = "None" THEN Cell("None", 0)
    ELSE IF IsNa(val) THEN Cell("None", 0)
    ELSE IF val.kind = "np_int" THEN Cell("int", val.v)
    ELSE IF val.kind = "np_float" THEN Cell("float", val.v)
    ELSE IF val.kind = "np_bool" THEN Cell("bool", val.v)
    ELSE IF val.kind = "Timestamp" THEN Cell("datetime", val.v)
    ELSE IF val.kind = "Timedelta" THEN Cell("float", val.v)
    ELSE val

\* df.where(pd.notnull(df), None), cell by cell
WhereNotNull(val) == IF IsNa(val) THEN NoneCell ELSE val

NativeRow(row) == [j \in 1..Len(row) |-> _to_native(row[j])]
NativeRowInsert(row) == [j \in 1..Len(row) |-> _to_native(WhereNotNull(row[j]))]

\* data = [tuple(self._to_native(v) for v in row) for row in df...]
DataOfUpsert(df) == [r \in 1..Len(df.rows) |-> NativeRow(df.rows[r])]
DataOfInsert(df) == [r \in 1..Len(df.rows) |-> NativeRowInsert(df.rows[r])]

\* The datasets handed to the calls: two columns, id and val.
DfCols == <<"id", "val">>
RowValues == {<<Cell("int", 1), NaNCell>>, <<Cell("np_int", 2), Cell("np_int", 7)>>}
RowSeqs(n) == UNION {[1..m -> RowValues] : m \in 0..n}
NoDf == [missing |-> TRUE, cols |-> <<>>, rows |-> <<>>]
Datasets == {NoDf} \cup {[missing |-> FALSE, cols |-> DfCols, rows |-> rs] : rs \in RowSeqs(MaxRows)}

\* the empty test reduced to "df is None"
IsEmptyDf_missingOnly(df) == df.missing

\* df is None or df.empty
IsEmptyDf(df) == df.missing \/ Len(df.rows) = 0 \/ Len(df.cols) = 0

\* ------------------------------------------------------ table references
\* A reference is a sequence of one-character strings.
Segments == {<<"t">>, <<" ", "t">>}

RECURSIVE JoinDot(_)
JoinDot(segs) ==
    IF Len(segs) = 1 THEN segs[1]
    ELSE segs[1] \o <<".">> \o JoinDot(Tail(segs))

TableRefs == {JoinDot(segs) : segs \in UNION {[1..k -> Segments] : k \in 1..MaxSegs}}

\* index of the first '.' of s, 0 when there is none
FirstDot(s) ==
    IF \E i \in 1..Len(s) : s[i] = "."
    THEN CHOOSE i \in 1..Len(s) : s[i] = "." /\ \A j \in 1..(i-1) : s[j] # "."
    ELSE 0

DotCount(s) == Cardinality({i \in 1..Len(s) : s[i] = "."})

\* str.split('.')
RECURSIVE SplitAll(_)
SplitAll(s) ==
    IF FirstDot(s) = 0 THEN <<s>>
    ELSE <<SubSeq(s, 1, FirstDot(s) - 1)>> \o SplitAll(SubSeq(s, FirstDot(s) + 1, Len(s)))

\* str.split('.', 1), used only when '.' is in s
SplitFirst(s) == <<SubSeq(s, 1, FirstDot(s) - 1), SubSeq(s, FirstDot(s) + 1, Len(s))>>

\* str.strip()
RECURSIVE Strip(_)
Strip(s) ==
    IF s = <<>> THEN s
    ELSE IF Head(s) = " " THEN Strip(Tail(s))
    ELSE IF s[Len(s)] = " " THEN Strip(SubSeq(s, 1, Len(s) - 1))
    ELSE s

\* DataLoader._qual_name: the identifiers joined by '.'
_qual_name(table) == [j \in 1..Len(SplitAll(table)) |-> Strip(SplitAll(table)[j])]

\* DataLoader._base_name
_base_name(table) == Strip(SplitAll(table)[Len(SplitAll(table))])

\* DataLoader._qualify_table
_qualify_table(table) ==
    IF FirstDot(table) # 0 THEN SplitFirst(table) ELSE <<table>>

\* ------------------------------------------------------------ statements
\* the update columns computed without the exclusion set
RECURSIVE upd_cols_noExclude(_, _, _)
upd_cols_noExclude(insert_cols, conflict_cols, exclude_update) ==
    IF insert_cols = <<>> THEN <<>>
    ELSE (IF Head(insert_cols) \in {conflict_cols[j] : j \in 1..Len(conflict_cols)}
          THEN <<>> ELSE <<Head(insert_cols)>>)
         \o upd_cols_noExclude(Tail(insert_cols), conflict_cols, exclude_update)

\* [c for c in insert_cols if c not in (set(conflict_cols) | exclude_update)]
RECURSIVE upd_cols(_, _, _)
upd_cols(insert_cols, conflict_cols, exclude_update) ==
    IF insert_cols = <<>> THEN <<>>
    ELSE (IF Head(insert_cols) \in ({conflict_cols[j] : j \in 1..Len(conflict_cols)} \cup exclude_update)
          THEN <<>> ELSE <<Head(insert_cols)>>)
         \o upd_cols(Tail(insert_cols), conflict_cols, exclude_update)

\* The statement text, kept as its parts.
Statement(tbl, cols, clause, conflict, setCols, whereCols, base) ==
    [table |-> tbl, cols |-> cols, clause |-> clause, conflict |-> conflict,
     set |-> setCols, where |-> whereCols, base |-> base]

NoStatement == Statement(<<>>, <<>>, "none", <<>>, <<>>, <<>>, <<>>)

\* simple_insert: "INSERT INTO {} ({}) VALUES %s"
InsertSql(table, df) ==
    Statement(_qualify_table(table), df.cols, "none", <<>>, <<>>, <<>>, <<>>)

\* the on_conflict test without "or not upd_cols"
ConflictBranch_policyOnly(on_conflict, upd) ==
    IF on_conflict = "nothing" THEN "nothing"
    ELSE IF on_conflict = "update" THEN "update"
    ELSE "ValueError"

\* upsert_df: which branch of the on_conflict test is taken
ConflictBranch(on_conflict, upd) ==
    IF on_conflict = "nothing" \/ upd = <<>> THEN "nothing"
    ELSE IF on_conflict = "update" THEN "update"
    ELSE "ValueError"

\* upsert_df: insert_sql + on_conflict_sql
UpsertSql(table, df, conflict_cols, exclude_update, on_conflict) ==
    LET upd == upd_cols(df.cols, conflict_cols, exclude_update)
        br == ConflictBranch(on_conflict, upd)
    IN  Statement(_qual_name(table), df.cols, br, conflict_cols,
                  IF br = "update" THEN upd ELSE <<>>,
                  IF br = "update" THEN upd ELSE <<>>,
                  IF br = "update" THEN _base_name(table) ELSE <<>>)

\* ----------------------------------------------------------- destination
\* The destination table holds native rows over DfCols and has a unique
\* index on UniqueCols.
UniqueCols == <<"id">>

ColIndex(cols, c) == CHOOSE j \in 1..Len(cols) : cols[j] = c
SeqSet(s) == {s[j] : j \in 1..Len(s)}
KeyOf(row, cols, kcols) == [j \in 1..Len(kcols) |-> row[ColIndex(cols, kcols[j])]]

InitTables == {[j \in 1..m |-> <<Cell("int", j), Cell("int", 9)>>] : m \in 0..MaxInitRows}

\* DO UPDATE SET without its WHERE clause
IsDistinct_always(st, stored, incoming) == TRUE

\* EXCLUDED.c IS DISTINCT FROM t.c for some c of the WHERE list
IsDistinct(st, stored, incoming) ==
    \E j \in 1..Len(st.where) :
        incoming[ColIndex(st.cols, st.where[j])] # stored[ColIndex(DfCols, st.where[j])]

\* SET c = EXCLUDED.c for every c of the SET list
SetFrom(st, stored, incoming) ==
    [j \in 1..Len(stored) |->
        IF DfCols[j] \in SeqSet(st.set) THEN incoming[ColIndex(st.cols, DfCols[j])] ELSE stored[j]]

\* one row of a VALUES list applied to the rows visible in the transaction
ApplyRow(tx, st, row) ==
    IF st.clause = "none" THEN Append(tx, row)
    ELSE LET hits == {k \in 1..Len(tx) :
                        KeyOf(tx[k], DfCols, st.conflict) = KeyOf(row, st.cols, st.conflict)}
         IN  IF hits = {} THEN Append(tx, row)
             ELSE IF st.clause = "nothing" THEN tx
             ELSE [k \in 1..Len(tx) |->
                     IF k \in hits /\ IsDistinct(st, tx[k], row)
                     THEN SetFrom(st, tx[k], row) ELSE tx[k]]

RECURSIVE ApplyRows(_, _, _)
ApplyRows(tx, st, rows) ==
    IF rows = <<>> THEN tx
    ELSE ApplyRows(ApplyRow(tx, st, Head(rows)), st, Tail(rows))

\* The destination rejects: a duplicate key on a plain INSERT, a conflict
\* target that matches no unique index, a DO UPDATE that would touch a row
\* twice in one statement.  It may also fail for reasons of its own.
DbAccepts(tx, st, rows) ==
    LET keys == [r \in 1..Len(rows) |-> KeyOf(rows[r], st.cols, UniqueCols)]
        distinctKeys == \A a, b \in 1..Len(rows) : a # b => keys[a] # keys[b]
    IN  IF st.clause = "none"
        THEN distinctKeys
             /\ \A r \in 1..Len(rows), k \in 1..Len(tx) :
                    keys[r] # KeyOf(tx[k], DfCols, UniqueCols)
        ELSE SeqSet(st.conflict) = SeqSet(UniqueCols)
             /\ (st.clause = "update" => distinctKeys)

\* ------------------------------------------------------------------ state
VARIABLES
    pc,         \* position of the call: idle, acquire, exec, commit, done
    args,       \* the arguments of the call
    data,       \* the native row tuples built from df
    stmt,       \* the statement built by the call
    conn,       \* the connection of the call: none, open, closed
    i,          \* loop variable of the chunk loop of upsert_df
    execs,      \* the row lists handed to execute_values, in order
    tx,         \* rows visible inside the open transaction
    dest,       \* committed rows of the destination table
    dest0,      \* dest when the call started
    commits,    \* conn.commit() calls that succeeded
    acquires,   \* calls of conn_handler.conectar_postgres
    logs,       \* log_mensagem calls, in order
    ret,        \* value returned by the call
    raised,     \* exception that left the call
    fault,      \* what went wrong during the call
    aborts,     \* transactions ended by closing the connection uncommitted
    prev,       \* the call that returned last, when a caller repeats it
    inp,        \* input of a function applied on its own
    out,        \* its result
    run         \* a ProcessLogger and the execucao block it tracks

vars == <<pc, args, data, stmt, conn, i, execs, tx, dest, dest0, commits,
          acquires, logs, ret, raised, fault, aborts, prev, inp, out, run>>

\* what a write call never touches
aux == <<prev, inp, out, run>>

Policies == {"update", "nothing", "replace"}
ConflictLists == {<<>>, <<"id">>, <<"id", "val">>}
ExcludeSets == {{}, {"val"}}
ChunkSizes == (0 - 1)..MaxChunk

Log(src, level, rows) == [src |-> src, level |-> level, rows |-> rows]
Pending == [tag |-> "pending", n |-> 0]
IntRet(n) == [tag |-> "int", n |-> n]
NoneRet == [tag |-> "None", n |-> 0]
NoArgs == [op |-> "none", table |-> <<>>, df |-> NoDf, conflict_cols |-> <<>>,
           exclude_update |-> {}, on_conflict |-> "update", chunk_size |-> 1]

NoPrev == [calls |-> 0, args |-> NoArgs, committed |-> FALSE]
Nothing == [f |-> "none"]
NoRun == [pc |-> "none"]

\* a loader just constructed
InitLoader ==
    /\ pc = "idle"
    /\ args = NoArgs
    /\ data = <<>>
    /\ stmt = NoStatement
    /\ conn = "none"
    /\ i = 0
    /\ execs = <<>>
    /\ tx = <<>>
    /\ dest \in InitTables
    /\ dest0 = dest
    /\ commits = 0
    /\ acquires = 0
    /\ logs = <<>>
    /\ ret = Pending
    /\ raised = "none"
    /\ fault = "none"
    /\ aborts = 0

Init ==
    /\ InitLoader
    /\ prev = NoPrev
    /\ inp = Nothing
    /\ out = Nothing
    /\ run = NoRun

\* --------------------------------------------------------- entry of a call
\* simple_insert, lines 77-92: the empty test, the row tuples, the statement
simple_insert(table, df, page_size) ==
    /\ pc = "idle"
    /\ args' = [op |-> "simple_insert", table |-> table, df |-> df,
                conflict_cols |-> <<>>, exclude_update |-> {},
                on_conflict |-> "update", chunk_size |-> page_size]
    /\ dest0' = dest
    /\ IF IsEmptyDf(df)
       THEN /\ logs' = Append(logs, Log("loader", "warning", 0))
            /\ ret' = IntRet(0)
            /\ pc' = "done"
            /\ UNCHANGED <<data, stmt>>
       ELSE /\ data' = DataOfInsert(df)
            /\ stmt' = InsertSql(table, df)
            /\ pc' = "acquire"
            /\ UNCHANGED <<logs, ret>>
    /\ UNCHANGED <<conn, i, execs, tx, dest, commits, acquires, raised, fault, aborts>>
    /\ UNCHANGED aux

\* the conflict_cols test left out
NoConflictCols_never(conflict_cols) == FALSE

\* not conflict_cols, after conflict_cols = list(conflict_cols or [])
NoConflictCols(conflict_cols) == conflict_cols = <<>>

\* upsert_df, lines 132-177: the empty test, the two configuration errors,
\* the row tuples, the statement
upsert_df(table, df, conflict_cols, exclude_update, on_conflict, chunk_size) ==
    /\ pc = "idle"
    /\ args' = [op |-> "upsert_df", table |-> table, df |-> df,
                conflict_cols |-> conflict_cols, exclude_update |-> exclude_update,
                on_conflict |-> on_conflict, chunk_size |-> chunk_size]
    /\ dest0' = dest
    /\ IF IsEmptyDf(df)
       THEN /\ logs' = Append(logs, Log("loader", "warning", 0))
            /\ ret' = NoneRet
            /\ pc' = "done"
            /\ UNCHANGED <<data, stmt, raised>>
       ELSE IF NoConflictCols(conflict_cols)
       THEN /\ raised' = "ValueError:conflict_cols"
            /\ pc' = "done"
            /\ UNCHANGED <<data, stmt, logs, ret>>
       ELSE IF ConflictBranch(on_conflict,
                   upd_cols(df.cols, conflict_cols, exclude_update)) = "ValueError"
       THEN /\ raised' = "ValueError:on_conflict"
            /\ data' = DataOfUpsert(df)
            /\ pc' = "done"
            /\ UNCHANGED <<stmt, logs, ret>>
       ELSE /\ data' = DataOfUpsert(df)
            /\ stmt' = UpsertSql(table, df, conflict_cols, exclude_update, on_conflict)
            /\ pc' = "acquire"
            /\ UNCHANGED <<logs, ret, raised>>
    /\ UNCHANGED <<conn, i, execs, tx, dest, commits, acquires, fault, aborts>>
    /\ UNCHANGED aux

\* ------------------------------------------------- leaving the with block
\* the finally clause without the close
CloseOnExit_leak(c) == c

\* conectar_postgres, finally: if conn and not conn.closed: conn.close()
CloseOnExit(c) == IF c = "open" THEN "closed" ELSE c

\* log lines of conectar_postgres when an exception passes through it
ExitLogs(c) ==
    <<Log("conn", "error", 0)>>
    \o (IF c = "open" THEN <<Log("conn", "info", 0)>> ELSE <<>>)

\* the error path committing what the transaction holds
DestAfterClose_keep(committed, uncommitted) == uncommitted

\* a connection closed without commit: its transaction is discarded
DestAfterClose(committed, uncommitted) == committed

\* an except clause that misses the errors of connect
IsPsycopgError_narrow(e) == e = "psycopg2.DatabaseError"

\* except psycopg2.Error in simple_insert and upsert_df
IsPsycopgError(e) == e \in {"psycopg2.OperationalError", "psycopg2.DatabaseError"}

\* value returned from the except clause
FailureRet(op) == IF op = "simple_insert" THEN IntRet(0) ELSE NoneRet

\* An exception e raised inside the with block (or by connect itself):
\* conectar_postgres logs it, re-raises and closes; the caller catches a
\* psycopg2.Error, logs it and returns; anything else leaves the call.
Raise(e, what) ==
    /\ fault' = what
    /\ aborts' = IF conn = "open" /\ CloseOnExit(conn) = "closed" THEN aborts + 1 ELSE aborts
    /\ conn' = CloseOnExit(conn)
    /\ dest' = DestAfterClose(dest, tx)
    /\ tx' = <<>>
    /\ pc' = "done"
    /\ IF IsPsycopgError(e)
       THEN /\ logs' = logs \o ExitLogs(conn) \o <<Log("loader", "error", 0)>>
            /\ ret' = FailureRet(args.op)
            /\ UNCHANGED raised
       ELSE /\ logs' = logs \o ExitLogs(conn)
            /\ raised' = e
            /\ UNCHANGED ret

\* --------------------------------------------------------------- the steps
\* the loop left for the commit after its first turn
LoopPc_early(idx, n, chunk_size) ==
    IF chunk_size < 0 \/ idx > 0 THEN "commit" ELSE "exec"

\* for i in range(0, len(data), chunk_size): where the call goes next
LoopPc(idx, n, chunk_size) ==
    IF chunk_size < 0 \/ (chunk_size > 0 /\ idx >= n) THEN "commit" ELSE "exec"

\* the slice starting one row early: data[i - 1:i + chunk_size]
ChunkAt_overlap(rows, idx, chunk_size) ==
    SubSeq(rows, IF idx = 0 THEN 1 ELSE idx, Min(idx + chunk_size, Len(rows)))

\* chunk = data[i:i + chunk_size]
ChunkAt(rows, idx, chunk_size) == SubSeq(rows, idx + 1, Min(idx + chunk_size, Len(rows)))

\* conectar_postgres, lines 47-52: connect(**params) succeeds
Connect_ok ==
    /\ pc = "acquire"
    /\ acquires' = acquires + 1
    /\ conn' = "open"
    /\ tx' = dest
    /\ logs' = Append(logs, Log("conn", "info", 0))
    /\ pc' = IF args.op = "simple_insert" THEN "exec"
             ELSE LoopPc(0, Len(data), args.chunk_size)
    /\ UNCHANGED <<args, data, stmt, i, execs, dest, dest0, commits, ret, raised, fault, aborts>>
    /\ UNCHANGED aux

\* conectar_postgres, lines 50-58: connect(**params) raises
Connect_err ==
    /\ pc = "acquire"
    /\ acquires' = acquires + 1
    /\ Raise("psycopg2.OperationalError", "connect")
    /\ UNCHANGED <<args, data, stmt, i, execs, dest0, commits>>
    /\ UNCHANGED aux

\* simple_insert, line 102: execute_values(cur, query_str, data, page_size)
ExecuteValues_ok ==
    /\ pc = "exec"
    /\ args.op = "simple_insert"
    /\ args.chunk_size >= 1
    /\ DbAccepts(tx, stmt, data)
    /\ execs' = Append(execs, data)
    /\ tx' = ApplyRows(tx, stmt, data)
    /\ pc' = "commit"
    /\ UNCHANGED <<args, data, stmt, conn, i, dest, dest0, commits, acquires, logs,
                   ret, raised, fault, aborts>>
    /\ UNCHANGED aux

\* simple_insert, line 102 raising; the pages sent before the failing one
\* stay in the transaction
ExecuteValues_err ==
    /\ pc = "exec"
    /\ args.op = "simple_insert"
    /\ execs' = Append(execs, data)
    /\ Raise("psycopg2.DatabaseError", "execute")
    /\ UNCHANGED <<args, data, stmt, i, dest0, commits, acquires>>
    /\ UNCHANGED aux

\* upsert_df, lines 185-187: one turn of the chunk loop
ExecChunk_ok ==
    /\ pc = "exec"
    /\ args.op = "upsert_df"
    /\ args.chunk_size > 0
    /\ i < Len(data)
    /\ LET chunk == ChunkAt(data, i, args.chunk_size)
       IN  /\ DbAccepts(tx, stmt, chunk)
           /\ execs' = Append(execs, chunk)
           /\ tx' = ApplyRows(tx, stmt, chunk)
    /\ i' = i + args.chunk_size
    /\ pc' = LoopPc(i', Len(data), args.chunk_size)
    /\ UNCHANGED <<args, data, stmt, conn, dest, dest0, commits, acquires, logs,
                   ret, raised, fault, aborts>>
    /\ UNCHANGED aux

\* upsert_df, line 187 raising
ExecChunk_err ==
    /\ pc = "exec"
    /\ args.op = "upsert_df"
    /\ args.chunk_size > 0
    /\ i < Len(data)
    /\ execs' = Append(execs, ChunkAt(data, i, args.chunk_size))
    /\ Raise("psycopg2.DatabaseError", "execute")
    /\ UNCHANGED <<args, data, stmt, i, dest0, commits, acquires>>
    /\ UNCHANGED aux

\* upsert_df, line 185: range() with a step of zero
RangeValueError ==
    /\ pc = "exec"
    /\ args.op = "upsert_df"
    /\ args.chunk_size = 0
    /\ Raise("ValueError:range", "range")
    /\ UNCHANGED <<args, data, stmt, i, execs, dest0, commits, acquires>>
    /\ UNCHANGED aux

\* conn.commit() succeeds, the with block is left, the count is logged
Commit_ok ==
    /\ pc = "commit"
    /\ commits' = commits + 1
    /\ dest' = tx
    /\ tx' = <<>>
    /\ conn' = CloseOnExit(conn)
    /\ logs' = logs \o <<Log("conn", "info", 0), Log("loader", "info", Len(data))>>
    /\ ret' = IF args.op = "simple_insert" THEN IntRet(Len(data)) ELSE NoneRet
    /\ pc' = "done"
    /\ UNCHANGED <<args, data, stmt, i, execs, dest0, acquires, raised, fault, aborts>>
    /\ UNCHANGED aux

\* conn.commit() raises
Commit_err ==
    /\ pc = "commit"
    /\ Raise("psycopg2.DatabaseError", "commit")
    /\ UNCHANGED <<args, data, stmt, i, execs, dest0, commits, acquires>>
    /\ UNCHANGED aux

\* the call has ended; the loader keeps nothing of it and can be called again
ReturnLoader ==
    /\ pc = "done"
    /\ pc' = "idle"
    /\ args' = NoArgs
    /\ data' = <<>>
    /\ stmt' = NoStatement
    /\ conn' = "none"
    /\ i' = 0
    /\ execs' = <<>>
    /\ dest0' = dest
    /\ commits' = 0
    /\ acquires' = 0
    /\ logs' = <<>>
    /\ ret' = Pending
    /\ raised' = "none"
    /\ fault' = "none"
    /\ aborts' = 0
    /\ UNCHANGED <<tx, dest>>

Return ==
    /\ ReturnLoader
    /\ UNCHANGED aux

Call_simple_insert ==
    /\ pc = "idle"
    /\ \E table \in TableRefs, df \in Datasets, page_size \in ChunkSizes :
        simple_insert(table, df, page_size)

Call_upsert_df ==
    /\ pc = "idle"
    /\ \E table \in TableRefs, df \in Datasets, conflict_cols \in ConflictLists,
       exclude_update \in ExcludeSets, on_conflict \in Policies, chunk_size \in ChunkSizes :
        upsert_df(table, df, conflict_cols, exclude_update, on_conflict, chunk_size)

Next ==
    \/ Call_simple_insert
    \/ Call_upsert_df
    \/ Connect_ok
    \/ Connect_err
    \/ ExecuteValues_ok
    \/ ExecuteValues_err
    \/ ExecChunk_ok
    \/ ExecChunk_err
    \/ RangeValueError
    \/ Commit_ok
    \/ Commit_err
    \/ Return

Spec == Init /\ [][Next]_vars

\* ------------------------------------------------- the same upsert twice
\* datasets in which one key comes with two values
RowValues2 == RowValues \cup {<<Cell("int", 1), Cell("np_int", 7)>>}
Datasets2 ==
    {[missing |-> FALSE, cols |-> DfCols, rows |-> rs] :
        rs \in UNION {[1..m -> RowValues2] : m \in 1..MaxRows}}

\* the caller's first upsert_df
First_upsert_df ==
    /\ pc = "idle"
    /\ prev.calls = 0
    /\ \E df \in Datasets2, exclude_update \in ExcludeSets,
          on_conflict \in {"update", "nothing"}, chunk_size \in 1..MaxChunk :
            upsert_df(<<"s", ".", "t">>, df, <<"id">>, exclude_update, on_conflict, chunk_size)

\* the first call has returned; the caller keeps its arguments
ReturnKeep ==
    /\ prev.calls = 0
    /\ prev' = [calls |-> 1, args |-> args, committed |-> (commits = 1)]
    /\ ReturnLoader
    /\ UNCHANGED <<inp, out, run>>

\* the caller's second upsert_df, with the arguments of the first
Repeat_upsert_df ==
    /\ pc = "idle"
    /\ prev.calls = 1
    /\ upsert_df(prev.args.table, prev.args.df, prev.args.conflict_cols,
                 prev.args.exclude_update, prev.args.on_conflict, prev.args.chunk_size)

NextTwice ==
    \/ First_upsert_df
    \/ Connect_ok
    \/ Connect_err
    \/ ExecChunk_ok
    \/ ExecChunk_err
    \/ Commit_ok
    \/ Commit_err
    \/ ReturnKeep
    \/ Repeat_upsert_df

SpecTwice == Init /\ [][NextTwice]_vars

\* ------------------------------------------- the statements on their own
MaxCols == 3        \* columns of the dataset whose statement is built

ColNames == {"id", "val", "created_at"}
\* column lists without repetition
ColLists(n) ==
    UNION {{cs \in [1..m -> ColNames] : \A a, b \in 1..m : a # b => cs[a] # cs[b]} : m \in 0..n}
RefSegments == {<<"t">>, <<" ", "t", " ">>}
SqlRefs == {JoinDot(segs) : segs \in UNION {[1..k -> RefSegments] : k \in 1..MaxSegs}}

SqlInputs ==
    {[table |-> t, cols |-> cs, conflict_cols |-> cc, exclude_update |-> ex, on_conflict |-> oc] :
        t \in SqlRefs, cs \in (ColLists(MaxCols) \ {<<>>}), cc \in ColLists(2),
        ex \in SUBSET ColNames, oc \in Policies}

InitSql ==
    /\ InitLoader
    /\ prev = NoPrev
    /\ run = NoRun
    /\ inp \in SqlInputs
    /\ out = Nothing

\* simple_insert, lines 82-92, for a dataset with rows
BuildInsert ==
    /\ out = Nothing
    /\ out' = [f |-> "insert", raised |-> "none", upd |-> <<>>,
               stmt |-> InsertSql(inp.table, [cols |-> inp.cols])]
    /\ UNCHANGED <<pc, args, data, stmt, conn, i, execs, tx, dest, dest0, commits,
                   acquires, logs, ret, raised, fault, aborts, prev, inp, run>>

\* upsert_df, lines 136-177, for a dataset with rows
BuildUpsert ==
    /\ out = Nothing
    /\ LET upd == upd_cols(inp.cols, inp.conflict_cols, inp.exclude_update)
       IN  out' =
            IF NoConflictCols(inp.conflict_cols)
            THEN [f |-> "upsert", raised |-> "ValueError:conflict_cols", upd |-> <<>>,
                  stmt |-> NoStatement]
            ELSE IF ConflictBranch(inp.on_conflict, upd) = "ValueError"
            THEN [f |-> "upsert", raised |-> "ValueError:on_conflict", upd |-> upd,
                  stmt |-> NoStatement]
            ELSE [f |-> "upsert", raised |-> "none", upd |-> upd,
                  stmt |-> UpsertSql(inp.table, [cols |-> inp.cols], inp.conflict_cols,
                                     inp.exclude_update, inp.on_conflict)]
    /\ UNCHANGED <<pc, args, data, stmt, conn, i, execs, tx, dest, dest0, commits,
                   acquires, logs, ret, raised, fault, aborts, prev, inp, run>>

NextSql ==
    \/ BuildInsert
    \/ BuildUpsert

SpecSql == InitSql /\ [][NextSql]_vars

\* ------------------------------------------------- the coercion on its own
MaxTuple == 2       \* cells of the row that is coerced

CellPayloads == {0, 42}
CellInputs ==
    {NoneCell, NaNCell, Cell("NaT", 0)}
    \cup {Cell(k, x) : k \in {"np_int", "np_float", "np_bool", "Timestamp", "Timedelta",
                              "int", "float", "str", "bool"},
                      x \in CellPayloads}
RowInputs == UNION {[1..m -> CellInputs] : m \in 1..MaxTuple}

InitCoerce ==
    /\ InitLoader
    /\ prev = NoPrev
    /\ run = NoRun
    /\ inp \in {[row |-> r, path |-> q] : r \in RowInputs, q \in {"upsert_df", "simple_insert"}}
    /\ out = Nothing

\* tuple(self._to_native(v) for v in row), on either write path
Coerce ==
    /\ out = Nothing
    /\ out' = [f |-> "coerce",
               row |-> IF inp.path = "upsert_df" THEN NativeRow(inp.row)
                       ELSE NativeRowInsert(inp.row)]
    /\ UNCHANGED <<pc, args, data, stmt, conn, i, execs, tx, dest, dest0, commits,
                   acquires, logs, ret, raised, fault, aborts, prev, inp, run>>

NextCoerce == Coerce

SpecCoerce == InitCoerce /\ [][NextCoerce]_vars

\* ------------------------------------------- ProcessLogger.execucao
MaxLogs == 2        \* log_mensagem calls the enclosed block makes

\* log_to_db_levels, the default of __init__
_log_to_db_levels == {"WARN", "ERROR", "FATAL"}

BlockLevels == {"INFO", "WARN", "ERROR"}
\* how the enclosed block ends: it returns, raises an Exception, or raises a
\* BaseException that is no Exception (KeyboardInterrupt, SystemExit)
BlockEnds == {"returns", "Exception", "BaseException"}
Blocks ==
    {[levels |-> l, outcome |-> o] :
        l \in UNION {[1..m -> BlockLevels] : m \in 0..MaxLogs}, o \in BlockEnds}

Evento(pid, level, codigo) == [processamento_id |-> pid, level |-> level, codigo |-> codigo]

\* registrar_evento: the row is inserted, or the failure is logged and swallowed
registrar_evento(ok, events, pid, level, codigo) ==
    IF ok THEN Append(events, Evento(pid, level, codigo)) ELSE events

\* log_mensagem: the line is sent to the database only with an id and a level
\* of _log_to_db_levels
log_mensagem(ok, events, self_id, level, codigo) ==
    IF self_id # 0 /\ level \in _log_to_db_levels
    THEN registrar_evento(ok, events, self_id, level, codigo)
    ELSE events

\* except Exception: catches every exception but a bare BaseException
CaughtByExcept(e) == e = "Exception"

InitExec ==
    /\ InitLoader
    /\ prev = NoPrev
    /\ out = Nothing
    /\ inp \in Blocks
    /\ run = [pc |-> "start", proc_id |-> 0, self_id |-> 0, status_final |-> "none",
              record |-> "none", updates |-> <<>>, events |-> <<>>, k |-> 1,
              exc |-> "none", reraised |-> FALSE]

ExecFrame == UNCHANGED <<pc, args, data, stmt, conn, i, execs, tx, dest, dest0, commits,
                         acquires, logs, ret, raised, fault, aborts, prev, inp, out>>

\* proc_id = self.registrar_inicio(...) returning the new id; status_final = SUCCESS
registrar_inicio_ok ==
    /\ run.pc = "start"
    /\ run' = [run EXCEPT !.pc = "block", !.proc_id = 1, !.self_id = 1,
                          !.record = "RUNNING", !.status_final = "SUCCESS"]
    /\ ExecFrame

\* registrar_inicio returning None (no connection, or the insert failed)
registrar_inicio_err ==
    /\ run.pc = "start"
    /\ run' = [run EXCEPT !.pc = "block", !.status_final = "SUCCESS"]
    /\ ExecFrame

\* the enclosed block calls log_mensagem
Block_log_mensagem ==
    /\ run.pc = "block"
    /\ run.k <= Len(inp.levels)
    /\ \E ok \in BOOLEAN :
          run' = [run EXCEPT !.k = run.k + 1,
                             !.events = log_mensagem(ok, run.events, run.self_id,
                                                     inp.levels[run.k], "BLOCK")]
    /\ ExecFrame

\* the enclosed block returns
Block_returns ==
    /\ run.pc = "block"
    /\ run.k > Len(inp.levels)
    /\ inp.outcome = "returns"
    /\ run' = [run EXCEPT !.pc = "finally"]
    /\ ExecFrame

\* the enclosed block raises: into the except clause when it catches the
\* exception, straight to the finally clause otherwise
Block_raises ==
    /\ run.pc = "block"
    /\ run.k > Len(inp.levels)
    /\ inp.outcome # "returns"
    /\ run' = [run EXCEPT !.exc = inp.outcome,
                          !.pc = IF CaughtByExcept(inp.outcome) THEN "except" ELSE "finally"]
    /\ ExecFrame

\* status_final = ERROR; self.log_mensagem(..., level="ERROR", codigo="UNHANDLED_EXCEPTION")
Except_log_mensagem ==
    /\ run.pc = "except"
    /\ \E ok \in BOOLEAN :
          run' = [run EXCEPT !.pc = "except_evento", !.status_final = "ERROR",
                             !.events = log_mensagem(ok, run.events, run.self_id,
                                                     "ERROR", "UNHANDLED_EXCEPTION")]
    /\ ExecFrame

\* self.registrar_evento(processamento_id=proc_id or 0, codigo="TRACEBACK"); raise
Except_registrar_evento ==
    /\ run.pc = "except_evento"
    /\ \E ok \in BOOLEAN :
          run' = [run EXCEPT !.pc = "finally",
                             !.events = registrar_evento(ok, run.events, run.proc_id,
                                                         "ERROR", "TRACEBACK")]
    /\ ExecFrame

\* finally: if proc_id: self.atualizar_execucao(status=status_final); the
\* update is written, or its failure is logged and swallowed; a pending
\* exception goes on to the caller
Finally ==
    /\ run.pc = "finally"
    /\ \E ok \in BOOLEAN :
          run' = [run EXCEPT !.pc = "exited",
                             !.updates = IF run.proc_id # 0
                                         THEN Append(run.updates, run.status_final)
                                         ELSE run.updates,
                             !.record = IF run.proc_id # 0 /\ ok THEN run.status_final
                                        ELSE run.record,
                             !.reraised = run.exc # "none"]
    /\ ExecFrame

NextExec ==
    \/ registrar_inicio_ok
    \/ registrar_inicio_err
    \/ Block_log_mensagem
    \/ Block_returns
    \/ Block_raises
    \/ Except_log_mensagem
    \/ Except_registrar_evento
    \/ Finally

SpecExec == InitExec /\ [][NextExec]_vars

\* ------------------------------------------------------------- properties
RECURSIVE Concat(_)
Concat(ss) == IF ss = <<>> THEN <<>> ELSE Head(ss) \o Concat(Tail(ss))

CeilDiv(n, c) == (n + c - 1) \div c

\* the dataset has no rows, or there is no dataset
ZeroRows(df) == df.missing \/ df.rows = <<>>

ErrorLogged(src) == \E k \in 1..Len(logs) : logs[k].src = src /\ logs[k].level = "error"

\* the count of the success message of the call
Reported == logs[Len(logs)].rows

\* rows handed to execute_values during the call
Handed == Len(Concat(execs))

\* C1: when the execution of a chunk raised a database error, the call has
\* committed nothing and the destination table holds what it held when the
\* call started, also when earlier chunks had been executed.
C1_NoPartialCommit ==
    (pc = "done" /\ fault = "execute") => (commits = 0 /\ dest = dest0)

C1_Witness ==
    /\ pc = "done" /\ fault = "execute" /\ args.op = "upsert_df"
    /\ Len(execs) >= 2
    /\ ApplyRows(dest0, stmt, execs[1]) # dest0
    /\ dest = dest0

\* C2: a call with a zero-row or missing dataset returns normally (0 from
\* simple_insert), reports no error, and has neither called the connection
\* provider nor executed anything, whatever its other arguments are.
C2_EmptyIsNoOp ==
    (pc = "done" /\ ZeroRows(args.df)) =>
        /\ raised = "none" /\ fault = "none"
        /\ acquires = 0 /\ execs = <<>> /\ commits = 0 /\ dest = dest0
        /\ ret = (IF args.op = "simple_insert" THEN IntRet(0) ELSE NoneRet)
        /\ ~ErrorLogged("loader") /\ ~ErrorLogged("conn")

C2_Witness ==
    /\ pc = "done" /\ args.op = "upsert_df"
    /\ ~args.df.missing /\ args.df.rows = <<>>
    /\ args.conflict_cols = <<>> /\ args.on_conflict = "replace"
    /\ Len(SplitAll(args.table)) = 3
    /\ acquires = 0 /\ raised = "none"

\* C3: a call commits at most once, and a commit has happened only when
\* every chunk of the call has been executed and none has failed; after the
\* commit the call executes nothing more.
C3_CommitOnceAfterAllChunks ==
    /\ commits <= 1
    /\ commits = 1 =>
        /\ pc = "done" /\ fault = "none"
        /\ (args.op = "simple_insert" => execs = <<data>>)
        /\ (args.op = "upsert_df" /\ args.chunk_size > 0 => Concat(execs) = data)

C3_Witness ==
    pc = "done" /\ commits = 1 /\ args.op = "upsert_df" /\ Len(execs) = 3

\* C4: when a call has ended, by return or by raise, its connection is not
\* open: a connection that was acquired has been closed.
C4_ConnectionReleased ==
    (pc = "done") =>
        /\ conn # "open"
        /\ (acquires = 1 /\ fault # "connect" => conn = "closed")

C4_Witness ==
    pc = "done" /\ raised = "ValueError:range" /\ conn = "closed" /\ acquires = 1

\* C5: a successful upsert_df of n >= 1 rows with chunk_size c >= 1 has made
\* ceil(n/c) executions on one connection; every chunk but the last has c
\* rows, the last has 1..c rows, and the chunks concatenated are the rows of
\* the call in their order.
C5_Chunking ==
    (pc = "done" /\ args.op = "upsert_df" /\ commits = 1 /\ args.chunk_size >= 1) =>
        /\ Len(data) >= 1
        /\ acquires = 1
        /\ Len(execs) = CeilDiv(Len(data), args.chunk_size)
        /\ \A k \in 1..(Len(execs) - 1) : Len(execs[k]) = args.chunk_size
        /\ Len(execs[Len(execs)]) \in 1..args.chunk_size
        /\ Concat(execs) = data

C5_Witness ==
    /\ pc = "done" /\ args.op = "upsert_df" /\ commits = 1
    /\ args.chunk_size = 2 /\ Len(data) = 3
    /\ Len(execs) = 2 /\ Len(execs[2]) = 1

\* C6: a call on a non-empty dataset that committed and reported success
\* reports the row count of the dataset, and that many rows were handed to
\* execute_values, for every chunk size.
C6_ReportedEqualsHanded ==
    (pc = "done" /\ commits = 1 /\ raised = "none" /\ fault = "none"
        /\ ~ZeroRows(args.df)) =>
        /\ Reported = Len(args.df.rows)
        /\ Handed = Len(args.df.rows)

\* C7: a connect failure and a database error of a chunk execution or of the
\* commit do not leave the call as an exception: the call logs an error and
\* returns its failure value.
C7_RuntimeErrorsCaught ==
    (pc = "done" /\ fault \in {"connect", "execute", "commit"}) =>
        /\ raised = "none"
        /\ ret # Pending
        /\ logs[Len(logs)] = Log("loader", "error", 0)

C7_Witness ==
    /\ pc = "done" /\ fault = "connect" /\ raised = "none"
    /\ ret = IntRet(0) /\ args.op = "simple_insert"

\* C8 as claimed: upsert_df with empty conflict columns fails with the
\* configuration error for every dataset, a zero-row dataset included.
C8_Original ==
    (pc = "done" /\ args.op = "upsert_df" /\ args.conflict_cols = <<>>) =>
        (raised = "ValueError:conflict_cols" /\ acquires = 0 /\ execs = <<>>)

\* C8: upsert_df with empty conflict columns and a dataset of at least one
\* row raises the configuration error, for every policy, with no connection
\* acquired and nothing executed; with a zero-row or missing dataset it
\* returns without raising, and again acquires and executes nothing.
C8_EmptyConflictTarget ==
    (pc = "done" /\ args.op = "upsert_df" /\ args.conflict_cols = <<>>) =>
        /\ acquires = 0 /\ execs = <<>>
        /\ raised = (IF ZeroRows(args.df) THEN "none" ELSE "ValueError:conflict_cols")

C8_Witness ==
    /\ pc = "done" /\ args.op = "upsert_df" /\ args.conflict_cols = <<>>
    /\ args.on_conflict = "replace" /\ Len(args.df.rows) = 2
    /\ raised = "ValueError:conflict_cols" /\ acquires = 0

\* C9: an upsert_df call (dataset with rows, conflict columns given) whose
\* policy is neither "update" nor "nothing" raises the configuration error
\* and acquires no connection, whether or not the update-column set is empty.
C9_InvalidPolicyRejected ==
    (pc # "idle" /\ args.op = "upsert_df" /\ args.on_conflict \notin {"update", "nothing"}
        /\ ~ZeroRows(args.df) /\ args.conflict_cols # <<>>) =>
        (raised = "ValueError:on_conflict" /\ acquires = 0)

\* C10: on both write paths (dataset with rows, valid upsert configuration)
\* a reference without '.' gives one identifier, a reference with one '.'
\* gives two, and a reference with more than one '.' is rejected before a
\* connection is acquired.
C10_ReferenceParsing ==
    (pc # "idle" /\ ~ZeroRows(args.df)
        /\ (args.op = "upsert_df" =>
                /\ args.conflict_cols # <<>>
                /\ raised # "ValueError:on_conflict")) =>
        /\ (DotCount(args.table) = 0 => Len(stmt.table) = 1)
        /\ (DotCount(args.table) = 1 => Len(stmt.table) = 2)
        /\ (DotCount(args.table) > 1 => raised = "MalformedReference" /\ acquires = 0)

\* the conflict keys of the rows are pairwise different
DistinctKeys(rows, cols, kcols) ==
    \A a, b \in 1..Len(rows) :
        a # b => KeyOf(rows[a], cols, kcols) # KeyOf(rows[b], cols, kcols)

\* C11: when upsert_df with policy "update" and a dataset of distinct
\* conflict keys has committed and is called again with the same arguments
\* and commits again, the destination after the second call is the
\* destination after the first, and in the second call the WHERE predicate is
\* false for every row that meets a stored row: nothing is updated.
C11_UpsertIdempotent ==
    (pc = "done" /\ prev.calls = 1 /\ prev.committed /\ commits = 1
        /\ args.on_conflict = "update"
        /\ DistinctKeys(data, stmt.cols, stmt.conflict)) =>
        /\ dest = dest0
        /\ \A r \in 1..Len(data), k \in 1..Len(dest0) :
              KeyOf(dest0[k], DfCols, stmt.conflict) = KeyOf(data[r], stmt.cols, stmt.conflict)
                  => ~IsDistinct(stmt, dest0[k], data[r])

C11_Witness ==
    /\ pc = "done" /\ prev.calls = 1 /\ prev.committed /\ commits = 1
    /\ args.on_conflict = "update" /\ stmt.clause = "update"
    /\ Len(data) = 2 /\ DistinctKeys(data, stmt.cols, stmt.conflict)
    /\ Len(execs) = 2
    /\ dest = dest0 /\ Len(dest) = 2

\* without distinct keys the second call does update
C11_NoKeyCondition ==
    (pc = "done" /\ prev.calls = 1 /\ prev.committed /\ commits = 1
        /\ args.on_conflict = "update") =>
        \A r \in 1..Len(data), k \in 1..Len(dest0) :
              KeyOf(dest0[k], DfCols, stmt.conflict) = KeyOf(data[r], stmt.cols, stmt.conflict)
                  => ~IsDistinct(stmt, dest0[k], data[r])

\* the dataset columns that are neither conflict nor excluded columns
ExpectedUpd(x) == SeqSet(x.cols) \ (SeqSet(x.conflict_cols) \cup x.exclude_update)

\* C12: the update columns of upsert_df are the dataset columns that are in
\* neither the conflict columns nor the exclusion set, in dataset order, and
\* a generated SET list assigns exactly them.
C12_UpdateColumns ==
    (out.f = "upsert" /\ out.raised # "ValueError:conflict_cols") =>
        /\ SeqSet(out.upd) = ExpectedUpd(inp)
        /\ \A a, b \in 1..Len(out.upd) :
              a < b => ColIndex(inp.cols, out.upd[a]) < ColIndex(inp.cols, out.upd[b])
        /\ (out.stmt.clause = "update" =>
              /\ out.stmt.set = out.upd
              /\ SeqSet(out.stmt.set) \cap (SeqSet(inp.conflict_cols) \cup inp.exclude_update) = {})

C12_Witness ==
    /\ out.f = "upsert" /\ out.stmt.clause = "update"
    /\ inp.cols = <<"val", "id", "created_at">>
    /\ inp.conflict_cols = <<"id">> /\ inp.exclude_update = {"created_at"}
    /\ out.stmt.set = <<"val">>

\* C13: the conflict clause is DO NOTHING when the policy is "nothing" or no
\* update column is left; with policy "update" and update columns left it is
\* DO UPDATE SET ... WHERE ..., the WHERE list being the SET list, not empty,
\* in the same order, compared against the base table name.
C13_ClauseShape ==
    (out.f = "upsert" /\ out.raised = "none") =>
        /\ out.stmt.conflict = inp.conflict_cols
        /\ (inp.on_conflict = "nothing" \/ ExpectedUpd(inp) = {}) =>
              (out.stmt.clause = "nothing" /\ out.stmt.set = <<>> /\ out.stmt.where = <<>>)
        /\ (inp.on_conflict = "update" /\ ExpectedUpd(inp) # {}) =>
              /\ out.stmt.clause = "update"
              /\ out.stmt.where # <<>>
              /\ out.stmt.where = out.stmt.set
              /\ SeqSet(out.stmt.set) = ExpectedUpd(inp)
              /\ out.stmt.base = <<"t">>

C13_Witness ==
    /\ out.f = "upsert" /\ out.raised = "none"
    /\ inp.on_conflict = "update" /\ out.stmt.clause = "update"
    /\ Len(out.stmt.where) = 2 /\ out.stmt.where = out.stmt.set
    /\ Len(inp.table) > 1

\* C14: a call whose chunk execution was rejected has logged exactly one
\* error-level line.
C14_OneErrorLine ==
    (pc = "done" /\ fault = "execute") =>
        Cardinality({k \in 1..Len(logs) : logs[k].level = "error"}) = 1

\* what the claim says a cell becomes
ExpectedNative(c) ==
    IF c.kind \in {"None", "NaN", "NaT"} THEN [kind |-> "None", v |-> 0]
    ELSE IF c.kind = "np_int" THEN [kind |-> "int", v |-> c.v]
    ELSE IF c.kind = "np_float" THEN [kind |-> "float", v |-> c.v]
    ELSE IF c.kind = "np_bool" THEN [kind |-> "bool", v |-> c.v]
    ELSE IF c.kind = "Timestamp" THEN [kind |-> "datetime", v |-> c.v]
    ELSE IF c.kind = "Timedelta" THEN [kind |-> "float", v |-> c.v]
    ELSE c

\* C15: every cell of the listed kinds is coerced, without an error, to the
\* value the claim names (missing marker to null, wrapped number to the plain
\* number of the same value, duration to its seconds, anything else
\* unchanged), and the tuple keeps the length and the order of the row.
C15_Coercion ==
    (out.f = "coerce") =>
        /\ Len(out.row) = Len(inp.row)
        /\ \A j \in 1..Len(inp.row) : out.row[j] = ExpectedNative(inp.row[j])

C15_Witness ==
    /\ out.f = "coerce" /\ Len(inp.row) = 2
    /\ inp.row[1] = Cell("np_int", 42) /\ out.row[1] = Cell("int", 42)
    /\ inp.row[2] = NaNCell /\ out.row[2] = Cell("None", 0)

\* C16: the table name simple_insert puts in its statement is the one
\* upsert_df would put there: every segment trimmed and quoted on its own.
C16_SameQualifiedName ==
    (out.f = "insert") =>
        /\ out.stmt.table = _qual_name(inp.table)
        /\ \A j \in 1..Len(out.stmt.table) : out.stmt.table[j] = <<"t">>

\* C17 as claimed: every ended call has made exactly one commit or exactly
\* one rollback.
C17_Original ==
    (pc = "done") => (commits + aborts = 1)

\* C17: a call never ends more than one transaction.  A call that acquired
\* a connection ends exactly one: by its single commit when nothing failed,
\* otherwise by the close of the uncommitted connection, which leaves the
\* destination as it was.  A call that acquired none (zero-row dataset,
\* configuration error, failed connect) commits nothing and aborts nothing.
C17_OneTransactionEnd ==
    /\ commits + aborts <= 1
    /\ (pc = "done") =>
        /\ (conn = "closed") => (commits + aborts = 1)
        /\ (conn # "closed") =>
              /\ commits + aborts = 0
              /\ ZeroRows(args.df) \/ raised \in {"ValueError:conflict_cols", "ValueError:on_conflict"}
                    \/ fault = "connect"
        /\ (commits = 1) <=> (acquires = 1 /\ fault = "none")
        /\ (aborts = 1) <=> (fault \in {"execute", "commit", "range"})
        /\ (aborts = 1) => dest = dest0

C17_Witness ==
    /\ pc = "done" /\ fault = "commit" /\ aborts = 1 /\ commits = 0
    /\ Len(execs) = 2 /\ conn = "closed"

\* C18: the value returned by a failed call differs from the value returned
\* by a successful call, the successful zero-row call (0 from simple_insert,
\* None from upsert_df) included.
C18_FailureDistinguishable ==
    (pc = "done" /\ fault \in {"connect", "execute", "commit"}) =>
        ret # (IF args.op = "simple_insert" THEN IntRet(0) ELSE NoneRet)

\* C19: after a run whose start returned an id, atualizar_execucao was
\* called once, with ERROR exactly when the block raised and with SUCCESS
\* otherwise; a raised exception went on to the caller after the TRACEBACK
\* event was handed to registrar_evento; without an id no update was made.
C19_RunTracking ==
    (run.pc = "exited") =>
        /\ (run.proc_id # 0) =>
              /\ Len(run.updates) = 1
              /\ (run.updates[1] = "ERROR") <=> (inp.outcome # "returns")
              /\ (run.updates[1] = "SUCCESS") <=> (inp.outcome = "returns")
        /\ (inp.outcome # "returns") => run.reraised
        /\ (run.proc_id = 0) => (run.updates = <<>> /\ run.record = "none")
====
